---- MODULE Spec2Model ----
(***************************************************************************)
(* The per-symbol analysis cache of GOLDUSD-CRASH-Agent                    *)
(* (src/cache_manager.py): the backing document gold_data_cache.json, the  *)
(* write lock cache_lock, the staleness rule, the read-through entry point *)
(* get_symbol_data_cached and the refresh update_symbol_data, run by the   *)
(* request thread and by the background updater thread.                    *)
(*                                                                         *)
(* Python values are modelled as follows.                                  *)
(*   dict            a TLA+ record / function on its keys                  *)
(*   None            the record None                                       *)
(*   str (text)      a sequence of one-character strings; the literal      *)
(*                   markers "TREND:" and "LIMIT:" are one element each    *)
(*   ISO timestamp   Iso(t), t the instant in clock ticks; a string that   *)
(*                   datetime.fromisoformat rejects is BadStamp            *)
(* The clock counts ticks of half an hour.                                 *)
(***************************************************************************)
EXTENDS Integers, Sequences, FiniteSets, TLC

VARIABLES now, file, lock, th, calls, probe, job, persisted

vars == <<now, file, lock, th, calls, probe, job, persisted>>
\* persisted is a history variable: the last_updated of the document that
\* was last written in full

(***************************************************************************)
(* Bounds of the model.                                                    *)
(***************************************************************************)
\* ticks the clock may advance after the start of a run
MaxTicks == 2
\* calls started in one run
MaxCalls == 2
\* ticks the clock may advance in a run of two threads
RaceTicks == 1
\* longest raw answer given to the extraction alone
MaxLen == 4
\* ticks the clock may advance in a run of the HTTP handlers
ApiTicks == 1
AutoTicks == 3
\* calls of add_symbol_to_cache made while the updater runs
AutoCalls == 1
\* requests handled in one run
ApiCalls == 2
\* ticks the clock may advance during the initial update
WarmTicks == 2
\* ticks the clock may advance in a run of the hourly updater
SweepTicks == 2
\* requests served while the hourly updater sleeps
SweepCalls == 1
\* largest instant of the staleness probe's inputs
MaxProbe == 6

\* timedelta(hours=1), in ticks
HOUR == 2

StartTime == HOUR
EndTime == StartTime + MaxTicks
RaceEndTime == StartTime + RaceTicks
SweepEndTime == StartTime + SweepTicks
WarmEndTime == StartTime + WarmTicks
ApiEndTime == StartTime + ApiTicks
AutoEndTime == StartTime + AutoTicks

Symbols == {"GOLDUSD", "EURUSD"}
Threads == {"api", "bg"}

(***************************************************************************)
(* Python values.                                                          *)
(***************************************************************************)
None == [py_none |-> TRUE]
Iso(t) == [iso |-> t]
BadStamp == [text |-> "not-a-date"]
\* datetime.fromisoformat(x) returns (does not raise)
Parses(x) == "iso" \in DOMAIN x
EmptyDict == [k \in {} |-> None]
\* a lookup that never finds the key (the key in another letter case)
GetOtherCase(d, k) == None
\* d.get(k): the value, or None
Get(d, k) == IF k \in DOMAIN d THEN d[k] ELSE None
\* an assignment that patches the trend and timestamp of a record in place
PutPatched(d, k, v) ==
    [x \in DOMAIN d \cup {k} |->
        IF x # k THEN d[x]
        ELSE IF k \in DOMAIN d /\ "raw_responses" \in DOMAIN d[k]
        THEN [d[k] EXCEPT !.trend = v.trend, !.timestamp = v.timestamp]
        ELSE v]
\* d[k] = v
Put(d, k, v) == [x \in DOMAIN d \cup {k} |-> IF x = k THEN v ELSE d[x]]
\* Python truth value of a dict-or-None
Falsy(x) == x = None \/ DOMAIN x = {}

(***************************************************************************)
(* Texts and the extraction of update_symbol_data (lines 74-85).           *)
(***************************************************************************)
Unknown == <<"u", "n", "k", "n", "o", "w", "n">>
NA == <<"N", "/", "A">>
IsSpace(c) == c \in {" ", "\n"}
\* str.lower() on one character of the alphabet used here
LowerChar(c) ==
    CASE c = "B" -> "b" [] c = "E" -> "e"
      [] c = "LIMIT:" -> "limit:" [] c = "TREND:" -> "trend:" [] OTHER -> c
Lower(s) == [i \in 1..Len(s) |-> LowerChar(s[i])]
\* marker in text
Contains(s, m) == \E i \in 1..Len(s) : s[i] = m
FirstAt(s, m) == CHOOSE i \in 1..Len(s) : s[i] = m /\ \A j \in 1..(i - 1) : s[j] # m
\* text.split(marker)[1]: what lies between the first marker and the next
SplitSecond(s, m) ==
    LET rest == SubSeq(s, FirstAt(s, m) + 1, Len(s))
    IN  IF Contains(rest, m) THEN SubSeq(rest, 1, FirstAt(rest, m) - 1) ELSE rest
\* s.strip().split() is the empty list
NoToken(s) == \A i \in 1..Len(s) : IsSpace(s[i])
\* s.strip().split()[0]
FirstToken(s) ==
    LET a == CHOOSE i \in 1..Len(s) : ~IsSpace(s[i]) /\ \A j \in 1..(i - 1) : IsSpace(s[j])
        ends == {i \in a..Len(s) : IsSpace(s[i])}
        b == IF ends = {} THEN Len(s)
             ELSE (CHOOSE i \in ends : \A j \in ends : i <= j) - 1
    IN  SubSeq(s, a, b)
\* the extraction raises IndexError
ExtractRaises(text, m) == Contains(text, m) /\ NoToken(SplitSecond(text, m))
ExtractTrend(text) ==
    IF Contains(text, "TREND:") THEN Lower(FirstToken(SplitSecond(text, "TREND:")))
    ELSE Unknown
ExtractLimit(text) ==
    IF Contains(text, "LIMIT:") THEN FirstToken(SplitSecond(text, "LIMIT:"))
    ELSE NA

(***************************************************************************)
(* Records and documents.                                                  *)
(***************************************************************************)
\* str: a symbol as text
\* symbol_data of update_symbol_data
SymbolData(t, symbol, trend_result, lower_result, upper_result) ==
    [ timestamp |-> Iso(t),
      symbol |-> symbol,
      trend |-> ExtractTrend(trend_result),
      lower_limit |-> ExtractLimit(lower_result),
      upper_limit |-> ExtractLimit(upper_result),
      raw_responses |-> [ trend |-> trend_result,
                          lower_limit |-> lower_result,
                          upper_limit |-> upper_result ] ]
EmptyCache == [last_updated |-> None, symbols |-> EmptyDict]

\* the backing document as a file: absent, not loadable as JSON (corrupt,
\* or torn: truncated by open(..., 'w') and not yet or never fully dumped),
\* or a JSON object
NoFile == [kind |-> "missing", data |-> None]
Garbage == [kind |-> "garbage", data |-> None]
Torn == [kind |-> "torn", data |-> None]
Json(d) == [kind |-> "json", data |-> d]

\* a variant of the rule that accepts a record aged exactly one hour
is_symbol_cache_valid_inclusive(symbol_data, clock) ==
    IF Falsy(symbol_data) \/ "timestamp" \notin DOMAIN symbol_data THEN FALSE
    ELSE IF ~Parses(symbol_data.timestamp) THEN FALSE
    ELSE clock - symbol_data.timestamp.iso <= HOUR

\* is_symbol_cache_valid, with datetime.now() = clock
is_symbol_cache_valid(symbol_data, clock) ==
    IF Falsy(symbol_data) \/ "timestamp" \notin DOMAIN symbol_data THEN FALSE
    ELSE IF ~Parses(symbol_data.timestamp) THEN FALSE
    ELSE clock - symbol_data.timestamp.iso < HOUR

(***************************************************************************)
(* load_cache (lines 12-32): what it reads and returns.                    *)
(***************************************************************************)
\* json.load succeeds and the result is a dict
Loadable(f) == f.kind = "json"
\* a format test on the wrong key: a document of the new format has no
\* top-level 'symbol' either
IsLegacyWrongKey(f) == Loadable(f) /\ "symbol" \notin DOMAIN f.data
\* the old single-symbol format: a dict without the key 'symbols'
IsLegacy(f) == Loadable(f) /\ "symbols" \notin DOMAIN f.data
\* data as rebuilt by the migration (lines 21-27), before save_cache stamps it
Migrated(old_data, clock) ==
    [ last_updated |-> IF "timestamp" \in DOMAIN old_data THEN old_data.timestamp
                       ELSE Iso(clock),
      symbols |-> [s \in {"GOLDUSD"} |-> old_data] ]
\* a fallback document that is stamped instead of empty
LoadedStamped(f) ==
    IF Loadable(f) THEN f.data ELSE [last_updated |-> Iso(0), symbols |-> EmptyDict]
\* what load_cache returns when it does not migrate
Loaded(f) == IF Loadable(f) THEN f.data ELSE EmptyCache

(***************************************************************************)
(* Threads. A thread runs one call at a time:                              *)
(*   "get"  get_symbol_data_cached(sym)                                    *)
(*   "add"  update_symbol_data(sym), called directly: add_symbol_to_cache, *)
(*          update_all_symbols, start_cache_updater                        *)
(*   "load" load_cache() (get_all_cached_symbols)                          *)
(* pc is the next step of the call; phase tells which load_cache call of   *)
(* the call is running (line 135 or line 102) and saving which save_cache  *)
(* call (line 28 or line 104). The fields from t0 on are history: they     *)
(* record what the call did and are read by the properties only:           *)
(*   t0          the instant at which the call began                       *)
(*   oracle      the kinds of the Oracle invocations made, in order        *)
(*   read, got   the file the call's first load_cache found and the        *)
(*               document it returned                                      *)
(*   tchk, seen  the instant of the validity check and the record checked  *)
(*   hit         the call returned at line 140                             *)
(*   migrated    the call's first load_cache took the migration branch     *)
(*   wrote       the save_cache calls ("mig", "upd") that wrote the file   *)
(*   wfail       the save_cache calls whose write raised                   *)
(*   raised      what raised inside update_symbol_data's try block         *)
(***************************************************************************)
Idle ==
    [ pc |-> "idle", op |-> "none", sym |-> "", phase |-> "", saving |-> "",
      doc |-> None, rec |-> None, tr |-> <<>>, lo |-> <<>>, result |-> None,
      t0 |-> 0, oracle |-> <<>>, seen |-> None,
      hit |-> FALSE, migrated |-> FALSE, wfail |-> {}, wrote |-> {},
      raised |-> "", got |-> None, read |-> NoFile, tchk |-> 0 ]

\* an update that writes a document holding its own symbol only
AfterLoadOwnSymbolOnly(me, d, clock) ==
    IF me.op = "load" THEN [me EXCEPT !.pc = "done", !.result = d, !.got = d]
    ELSE IF me.phase = "check"
    THEN LET symbol_data == Get(d.symbols, me.sym)
         IN  IF is_symbol_cache_valid(symbol_data, clock)
             THEN [me EXCEPT !.pc = "done", !.doc = None, !.result = symbol_data,
                             !.seen = symbol_data, !.hit = TRUE, !.got = d,
                             !.tchk = clock]
             ELSE [me EXCEPT !.pc = "trend", !.doc = None, !.phase = "refresh",
                             !.seen = symbol_data, !.got = d, !.tchk = clock]
    ELSE [me EXCEPT !.pc = "save", !.saving = "upd",
                    !.got = IF me.op = "add" THEN d ELSE @,
                    !.doc = [d EXCEPT !.symbols = Put(EmptyDict, me.sym, me.rec)]]

\* the code after load_cache() has returned d to thread record me: the end
\* of the call (get_all_cached_symbols), lines 136-143, or lines 103-104
AfterLoad(me, d, clock) ==
    IF me.op = "load" THEN [me EXCEPT !.pc = "done", !.result = d, !.got = d]
    ELSE IF me.phase = "check"
    THEN LET symbol_data == Get(d.symbols, me.sym)
         IN  IF is_symbol_cache_valid(symbol_data, clock)
             THEN [me EXCEPT !.pc = "done", !.doc = None, !.result = symbol_data,
                             !.seen = symbol_data, !.hit = TRUE, !.got = d,
                             !.tchk = clock]
             ELSE [me EXCEPT !.pc = "trend", !.doc = None, !.phase = "refresh",
                             !.seen = symbol_data, !.got = d, !.tchk = clock]
    ELSE [me EXCEPT !.pc = "save", !.saving = "upd",
                    !.got = IF me.op = "add" THEN d ELSE @,
                    !.doc = [d EXCEPT !.symbols = Put(d.symbols, me.sym, me.rec)]]

\* a save_cache that lets the write's exception through to line 115
AfterSaveRaising(me, clock) ==
    IF me.saving = "mig" THEN AfterLoad([me EXCEPT !.saving = ""], me.doc, clock)
    ELSE [me EXCEPT !.pc = "done", !.saving = "",
                    !.result = IF "upd" \in me.wfail THEN None ELSE me.rec]

\* the code after save_cache(data) has returned
AfterSave(me, clock) ==
    IF me.saving = "mig" THEN AfterLoad([me EXCEPT !.saving = ""], me.doc, clock)
    ELSE [me EXCEPT !.pc = "done", !.saving = "", !.result = me.rec]

\* time passes, up to instant last
Tick(last) ==
    /\ now < last
    /\ now' = now + 1
    /\ UNCHANGED <<file, lock, th, calls, probe, job, persisted>>

Call(t, op, symbol) ==
    /\ th[t].pc = "idle"
    /\ calls > 0
    /\ calls' = calls - 1
    /\ th' = [th EXCEPT ![t] =
                [Idle EXCEPT !.pc = IF op = "add" THEN "trend" ELSE "load",
                             !.op = op, !.sym = symbol,
                             !.phase = IF op = "add" THEN "refresh" ELSE "check",
                             !.t0 = now]]
    /\ UNCHANGED <<now, file, lock, probe, job, persisted>>

\* load_cache up to its return, or up to its call of save_cache (line 28)
Load(t) ==
    /\ th[t].pc = "load"
    /\ th' = [th EXCEPT ![t] =
                IF IsLegacy(file)
                THEN [@ EXCEPT !.pc = "save", !.saving = "mig",
                               !.migrated = IF th[t].got = None THEN TRUE ELSE @,
                               !.read = IF th[t].got = None THEN file ELSE @,
                               !.doc = Migrated(file.data, now)]
                ELSE AfterLoad([@ EXCEPT !.read = IF th[t].got = None THEN file ELSE @],
                               Loaded(file), now)]
    /\ UNCHANGED <<now, file, lock, calls, probe, job, persisted>>

\* the document written without a new last_updated
StampedNot(data, clock) == data

\* data['last_updated'] = datetime.now().isoformat() (line 38)
Stamped(data, clock) == [data EXCEPT !.last_updated = Iso(clock)]

\* a lock that stays held when the write raised
ReleasedOnSuccessOnly(holder, ok) == IF ok THEN "free" ELSE holder

\* cache_lock when the with block of save_cache (line 37) is left, by its
\* end (ok) or by an exception (~ok) on the way to line 42
Released(holder, ok) == "free"

\* last_updated of a document on disk, None when it has none
LastUpdated(f) ==
    IF f.kind = "json" /\ "last_updated" \in DOMAIN f.data
    THEN f.data.last_updated ELSE None

\* save_cache: lock taken, last_updated stamped, file opened for writing
\* (lines 37-39); ok = FALSE: open raises, the lock is released (line 42)
SaveBegin(t, Oks) ==
    /\ th[t].pc = "save"
    /\ lock = "free"
    /\ \E ok \in Oks :
         LET me == [th[t] EXCEPT !.doc = Stamped(th[t].doc, now)]
         IN  IF ok
             THEN /\ lock' = t
                  /\ file' = Torn
                  /\ th' = [th EXCEPT ![t] = [me EXCEPT !.pc = "write"]]
             ELSE /\ lock' = Released(t, FALSE)
                  /\ file' = file
                  /\ th' = [th EXCEPT ![t] =
                              AfterSave([me EXCEPT !.wfail = @ \cup {me.saving}], now)]
    /\ UNCHANGED <<now, calls, probe, job, persisted>>

\* save_cache: json.dump and the end of the with blocks (lines 40-41);
\* ok = FALSE: the dump raises part way, the lock is released (line 42)
SaveWrite(t, Oks) ==
    /\ th[t].pc = "write"
    /\ \E ok \in Oks :
         /\ file' = IF ok THEN Json(th[t].doc) ELSE Torn
         /\ th' = [th EXCEPT ![t] =
                     AfterSave([@ EXCEPT !.wfail = IF ok THEN @ ELSE @ \cup {th[t].saving},
                                         !.wrote = IF ok THEN @ \cup {th[t].saving} ELSE @],
                               now)]
         /\ lock' = Released(t, ok)
         /\ persisted' = IF ok THEN th[t].doc.last_updated ELSE persisted
    /\ UNCHANGED <<now, calls, probe, job>>

\* an Oracle error answered by storing a record of sentinels
OnOracleErrorStoresSentinels(me, kind, clock) ==
    [me EXCEPT !.pc = "load", !.tr = <<>>, !.lo = <<>>, !.raised = kind,
               !.rec = SymbolData(clock, me.sym, <<>>, <<>>, <<>>),
               !.oracle = Append(@, kind)]

\* an Oracle call raised: the except clause of update_symbol_data
\* (lines 115-117) returns None, nothing after the call has run
OnOracleError(me, kind, clock) ==
    [me EXCEPT !.pc = "done", !.result = None, !.tr = <<>>, !.lo = <<>>,
               !.raised = kind, !.oracle = Append(@, kind)]

\* run_trend_analysis(symbol) (line 66): an answer, or an exception (line 115)
OracleTrend(t, Texts, Oks) ==
    /\ th[t].pc = "trend"
    /\ \/ \E a \in Texts :
            th' = [th EXCEPT ![t] = [@ EXCEPT !.pc = "lower", !.tr = a,
                                              !.oracle = Append(@, "Trend")]]
       \/ /\ FALSE \in Oks
          /\ th' = [th EXCEPT ![t] = OnOracleError(@, "Trend", now)]
    /\ UNCHANGED <<now, file, lock, calls, probe, job, persisted>>

\* run_lower_limit_analysis(symbol) (line 69)
OracleLower(t, Texts, Oks) ==
    /\ th[t].pc = "lower"
    /\ \/ \E a \in Texts :
            th' = [th EXCEPT ![t] = [@ EXCEPT !.pc = "upper", !.lo = a,
                                              !.oracle = Append(@, "LowerLimit")]]
       \/ /\ FALSE \in Oks
          /\ th' = [th EXCEPT ![t] = OnOracleError(@, "LowerLimit", now)]
    /\ UNCHANGED <<now, file, lock, calls, probe, job, persisted>>

\* run_upper_limit_analysis(symbol), the extraction and symbol_data
\* (lines 72-99)
OracleUpper(t, Texts, Oks) ==
    /\ th[t].pc = "upper"
    /\ \/ \E a \in Texts :
            th' = [th EXCEPT ![t] =
                    IF \/ ExtractRaises(th[t].tr, "TREND:")
                       \/ ExtractRaises(th[t].lo, "LIMIT:")
                       \/ ExtractRaises(a, "LIMIT:")
                    THEN [@ EXCEPT !.pc = "done", !.result = None, !.tr = <<>>,
                                   !.lo = <<>>, !.raised = "Extract",
                                   !.oracle = Append(@, "UpperLimit")]
                    ELSE [@ EXCEPT !.pc = "load", !.tr = <<>>, !.lo = <<>>,
                                   !.rec = SymbolData(now, th[t].sym, th[t].tr,
                                                     th[t].lo, a),
                                   !.oracle = Append(@, "UpperLimit")]]
       \/ /\ FALSE \in Oks
          /\ th' = [th EXCEPT ![t] = OnOracleError(@, "UpperLimit", now)]
    /\ UNCHANGED <<now, file, lock, calls, probe, job, persisted>>

\* the call has returned; the thread is free for the next one
Return(t) ==
    /\ th[t].pc = "done"
    /\ th' = [th EXCEPT ![t] = Idle]
    /\ UNCHANGED <<now, file, lock, calls, probe, job, persisted>>

(***************************************************************************)
(* Jobs: the code that calls into the cache from a thread. job[t] is the   *)
(* frame of the job thread t runs; its calls of load_cache and             *)
(* update_symbol_data run as calls of thread t (th[t]).                    *)
(*   "hourly"  hourly_cache_updater (lines 163-195), pc:                   *)
(*             "sleep" line 170, "check" line 173 running, "list" line 121 *)
(*             running, "sweep" the loop of lines 130-131, "cooldown" line *)
(*             195, "dead" an exception has left the function              *)
(*   "warmup"  the initial update of start_cache_updater (lines 202-215),  *)
(*             pc: "start" before line 203, "load" line 203 running,       *)
(*             "loop" lines 206-215, "done"; history: cache_data of line   *)
(*             203 (seen), the instant at which each symbol was checked at *)
(*             line 213 (checked), the symbols update_symbol_data was      *)
(*             called for (refreshed)                                      *)
(*   "http"    a handler of src/api.py: route "getSymbolData" (lines       *)
(*             183-212) or "addSymbol" (lines 241-251) with the query      *)
(*             parameter symbol; pc "handling" until the response, then    *)
(*             "answered" with its status, message and data                *)
(* The fields from seen on are history of the running or the last cycle:   *)
(*   seen, tchk    cache_data of line 173 and the instant of the check     *)
(*   needs_update  needs_update at line 187                                *)
(*   refreshed     the symbols update_symbol_data was called for, in order *)
(*   oracle        the number of Oracle invocations                        *)
(*   saves         the number of save_cache calls                          *)
(*   ended         the cycle ran to line 189 or 191 and these returned     *)
(*   errors        what raised during the cycle                            *)
(***************************************************************************)
NoJob == [kind |-> "none", pc |-> "none"]
NoJobs == [t \in Threads |-> NoJob]
Hourly(clock) ==
    [ kind |-> "hourly", pc |-> "sleep", since |-> clock, symbols |-> {},
      seen |-> None, tchk |-> 0, needs_update |-> FALSE, refreshed |-> <<>>,
      oracle |-> 0,
      saves |-> 0, ended |-> FALSE, errors |-> {} ]

\* a call of thread record me has returned to the job: what it did is added
\* to the job's history
Account(fr, me) ==
    [fr EXCEPT !.oracle = @ + Len(me.oracle),
               !.saves = @ + Cardinality(me.wrote \cup me.wfail),
               !.errors = @ \cup (IF me.raised # "" THEN {"oracle"} ELSE {})
                            \cup (IF me.wfail # {} THEN {"write"} ELSE {})]

\* thread record of a call of load_cache() / update_symbol_data(symbol)
\* begun at instant clock
CallLoad(clock) == [Idle EXCEPT !.pc = "load", !.op = "load", !.phase = "check", !.t0 = clock]
CallUpdate(symbol, clock) ==
    [Idle EXCEPT !.pc = "trend", !.op = "add", !.sym = symbol, !.phase = "refresh",
                 !.t0 = clock]

\* an exception raised outside the try statement (by the cooldown of line
\* 195) leaves hourly_cache_updater: the thread ends
OnUncaught(fr, what) ==
    [fr EXCEPT !.pc = "dead", !.errors = @ \cup {what}]

\* except Exception (line 193): the exception is caught, the cooldown follows
OnException(fr, what) ==
    [fr EXCEPT !.pc = "cooldown", !.errors = @ \cup {what}]

\* time.sleep(3600) returns, an hour or more after it began; line 173 begins
SleepWake(t) ==
    /\ job[t].kind = "hourly"
    /\ job[t].pc = "sleep"
    /\ now - job[t].since >= HOUR
    /\ th[t].pc = "idle"
    /\ th' = [th EXCEPT ![t] = CallLoad(now)]
    /\ job' = [job EXCEPT ![t] = [Hourly(job[t].since) EXCEPT !.pc = "check"]]
    /\ UNCHANGED <<now, file, lock, calls, probe, persisted>>

\* time.sleep(3600) raises
SleepRaises(t) ==
    /\ job[t].kind = "hourly"
    /\ job[t].pc = "sleep"
    /\ job' = [job EXCEPT ![t] = OnException(Hourly(job[t].since), "sleep")]
    /\ UNCHANGED <<now, file, lock, th, calls, probe, persisted>>

\* time.sleep(60) (line 195) returns; the loop begins again at line 170
Cooldown(t) ==
    /\ job[t].kind = "hourly"
    /\ job[t].pc = "cooldown"
    /\ job' = [job EXCEPT ![t] = [@ EXCEPT !.pc = "sleep", !.since = now]]
    /\ UNCHANGED <<now, file, lock, th, calls, probe, persisted>>

\* time.sleep(60) (line 195) raises: the exception is raised inside the
\* except clause, nothing catches it, the function and its thread end
CooldownRaises(t) ==
    /\ job[t].kind = "hourly"
    /\ job[t].pc = "cooldown"
    /\ job' = [job EXCEPT ![t] = OnUncaught(@, "cooldown")]
    /\ UNCHANGED <<now, file, lock, th, calls, probe, persisted>>

\* symbols of hourly_cache_updater (lines 174-178): the keys of the loaded
\* document, or GOLDUSD when there is none
CheckedSymbols(cache_data) ==
    IF DOMAIN cache_data.symbols = {} THEN {"GOLDUSD"} ELSE DOMAIN cache_data.symbols

\* a check that always asks for an update
needs_update_always(cache_data, clock) == TRUE

\* needs_update of lines 180-185
needs_update(cache_data, clock) ==
    \E symbol \in CheckedSymbols(cache_data) :
        ~is_symbol_cache_valid(Get(cache_data.symbols, symbol), clock)

\* symbols of update_all_symbols (lines 122-126): the keys of the loaded
\* document and GOLDUSD
AllSymbols(cache_data) ==
    DOMAIN cache_data.symbols \cup {"GOLDUSD"}

\* lines 174-191, load_cache of line 173 having returned: the check, then
\* the call of update_all_symbols (its load_cache, line 121, begins) or the
\* end of the cycle
HourlyCheck(t) ==
    /\ job[t].kind = "hourly"
    /\ job[t].pc = "check"
    /\ th[t].pc = "done"
    /\ LET cache_data == th[t].result
           fr == Account([job[t] EXCEPT !.seen = cache_data, !.tchk = now], th[t])
       IN  IF needs_update(cache_data, now)
           THEN /\ job' = [job EXCEPT ![t] = [fr EXCEPT !.pc = "list",
                                                        !.needs_update = TRUE]]
                /\ th' = [th EXCEPT ![t] = CallLoad(now)]
           ELSE /\ job' = [job EXCEPT ![t] = [fr EXCEPT !.pc = "sleep", !.ended = TRUE,
                                                        !.since = now]]
                /\ th' = [th EXCEPT ![t] = Idle]
    /\ UNCHANGED <<now, file, lock, calls, probe, persisted>>

\* lines 122-128, load_cache of line 121 having returned
UpdateAllList(t) ==
    /\ job[t].kind = "hourly"
    /\ job[t].pc = "list"
    /\ th[t].pc = "done"
    /\ job' = [job EXCEPT ![t] = [Account(@, th[t]) EXCEPT
                                    !.pc = "sweep",
                                    !.symbols = AllSymbols(th[t].result)]]
    /\ th' = [th EXCEPT ![t] = Idle]
    /\ UNCHANGED <<now, file, lock, calls, probe, persisted>>

\* the loop of lines 130-131: the next update_symbol_data begins, or the
\* loop is over and the cycle ends (the symbols are taken in any order)
SweepNext(t) ==
    /\ job[t].kind = "hourly"
    /\ job[t].pc = "sweep"
    /\ th[t].pc \in {"idle", "done"}
    /\ LET fr == IF th[t].pc = "done" THEN Account(job[t], th[t]) ELSE job[t]
       IN  IF fr.symbols = {}
           THEN /\ job' = [job EXCEPT ![t] = [fr EXCEPT !.pc = "sleep", !.ended = TRUE,
                                                        !.since = now]]
                /\ th' = [th EXCEPT ![t] = Idle]
           ELSE \E symbol \in fr.symbols :
                /\ job' = [job EXCEPT ![t] = [fr EXCEPT !.symbols = @ \ {symbol},
                                                        !.refreshed = Append(@, symbol)]]
                /\ th' = [th EXCEPT ![t] = CallUpdate(symbol, now)]
    /\ UNCHANGED <<now, file, lock, calls, probe, persisted>>

Warmup ==
    [ kind |-> "warmup", pc |-> "start", symbols |-> {}, seen |-> None,
      checked |-> EmptyDict, refreshed |-> <<>> ]

\* an initial update that refreshes every tracked symbol
WarmupNeedsAlways(cache_data, symbol, clock) == TRUE

\* not is_symbol_cache_valid(symbol_data) of lines 212-213
WarmupNeeds(cache_data, symbol, clock) ==
    ~is_symbol_cache_valid(Get(cache_data.symbols, symbol), clock)

\* start_cache_updater: thread u is started on hourly_cache_updater
\* (lines 199-200) and begins its hour's sleep, load_cache of line 203
\* begins in thread t
WarmStart(t, u) ==
    /\ job[t].kind = "warmup"
    /\ job[t].pc = "start"
    /\ th[t].pc = "idle"
    /\ job[u].kind = "none"
    /\ th' = [th EXCEPT ![t] = CallLoad(now)]
    /\ job' = [job EXCEPT ![t] = [@ EXCEPT !.pc = "load"], ![u] = Hourly(now)]
    /\ UNCHANGED <<now, file, lock, calls, probe, persisted>>

\* lines 204-208, load_cache of line 203 having returned: with no symbol,
\* update_symbol_data("GOLDUSD") begins
WarmLoaded(t) ==
    /\ job[t].kind = "warmup"
    /\ job[t].pc = "load"
    /\ th[t].pc = "done"
    /\ LET cache_data == th[t].result
           symbols == DOMAIN cache_data.symbols
       IN  IF symbols = {}
           THEN /\ job' = [job EXCEPT ![t] = [@ EXCEPT !.pc = "loop", !.seen = cache_data,
                                                       !.refreshed = <<"GOLDUSD">>]]
                /\ th' = [th EXCEPT ![t] = CallUpdate("GOLDUSD", now)]
           ELSE /\ job' = [job EXCEPT ![t] = [@ EXCEPT !.pc = "loop", !.seen = cache_data,
                                                       !.symbols = symbols]]
                /\ th' = [th EXCEPT ![t] = Idle]
    /\ UNCHANGED <<now, file, lock, calls, probe, persisted>>

\* the loop of lines 211-215: the next symbol is checked and, its record
\* not being valid, its update_symbol_data begins; or the loop is over (the
\* symbols are taken in any order)
WarmNext(t) ==
    /\ job[t].kind = "warmup"
    /\ job[t].pc = "loop"
    /\ th[t].pc \in {"idle", "done"}
    /\ IF job[t].symbols = {}
       THEN /\ job' = [job EXCEPT ![t] = [@ EXCEPT !.pc = "done"]]
            /\ th' = [th EXCEPT ![t] = Idle]
       ELSE \E symbol \in job[t].symbols :
            LET fr == [job[t] EXCEPT !.symbols = @ \ {symbol},
                                     !.checked = Put(@, symbol, now)]
            IN  IF WarmupNeeds(job[t].seen, symbol, now)
                THEN /\ job' = [job EXCEPT ![t] =
                                  [fr EXCEPT !.refreshed = Append(@, symbol)]]
                     /\ th' = [th EXCEPT ![t] = CallUpdate(symbol, now)]
                ELSE /\ job' = [job EXCEPT ![t] = fr]
                     /\ th' = [th EXCEPT ![t] = Idle]
    /\ UNCHANGED <<now, file, lock, calls, probe, persisted>>

\* str.upper() on the symbols used here
Upper(symbol) ==
    CASE symbol = "eurusd" -> "EURUSD"
      [] symbol = "goldusd" -> "GOLDUSD"
      [] OTHER -> symbol

\* before is history: the backing document when the request arrived
Http(route, symbol) ==
    [ kind |-> "http", pc |-> "handling", route |-> route, symbol |-> symbol,
      status |-> 0, message |-> "", data |-> None, before |-> NoFile ]

\* a request arrives: GET /getSymbolData?symbol= calls
\* get_symbol_data_cached(symbol) (api.py line 192), POST /addSymbol?symbol=
\* calls add_symbol_to_cache(symbol.upper()) (api.py line 248)
Request(t, route, symbol) ==
    /\ job[t].kind = "none" \/ (job[t].kind = "http" /\ job[t].pc = "answered")
    /\ th[t].pc \in {"idle", "done"}
    /\ calls > 0
    /\ calls' = calls - 1
    /\ job' = [job EXCEPT ![t] = [Http(route, symbol) EXCEPT !.before = file]]
    /\ th' = [th EXCEPT ![t] =
                IF route = "addSymbol" THEN CallUpdate(Upper(symbol), now)
                ELSE [Idle EXCEPT !.pc = "load", !.op = "get", !.sym = symbol,
                                  !.phase = "check", !.t0 = now]]
    /\ UNCHANGED <<now, file, lock, probe, persisted>>

\* a handler that answers 200 with no data when the cache gave nothing
GetSymbolDataResponseNo503(fr, result) ==
    IF Falsy(result)
    THEN [fr EXCEPT !.pc = "answered", !.status = 200]
    ELSE [fr EXCEPT !.pc = "answered", !.status = 200,
                    !.data = [ symbol |-> fr.symbol,
                               trend |-> result.trend,
                               lower_limit |-> result.lower_limit,
                               upper_limit |-> result.upper_limit,
                               timestamp |-> result.timestamp ]]

\* the response of get_symbol_data to what get_symbol_data_cached returned
\* (api.py lines 194-208): 503 when the cache gave nothing
GetSymbolDataResponse(fr, result) ==
    IF Falsy(result)
    THEN [fr EXCEPT !.pc = "answered", !.status = 503,
                    !.message = "Cache data unavailable"]
    ELSE IF ~Parses(result.timestamp)
    THEN [fr EXCEPT !.pc = "answered", !.status = 500,
                    !.message = "Error fetching data"]
    ELSE [fr EXCEPT !.pc = "answered", !.status = 200,
                    !.data = [ symbol |-> fr.symbol,
                               trend |-> result.trend,
                               lower_limit |-> result.lower_limit,
                               upper_limit |-> result.upper_limit,
                               timestamp |-> result.timestamp ]]

\* the response of add_symbol (api.py line 249)
AddSymbolResponse(fr, result) ==
    [fr EXCEPT !.pc = "answered", !.status = 200,
               !.message = "added successfully", !.data = result]

\* the handler answers
Respond(t) ==
    /\ job[t].kind = "http"
    /\ job[t].pc = "handling"
    /\ th[t].pc = "done"
    /\ job' = [job EXCEPT ![t] =
                IF job[t].route = "addSymbol"
                THEN AddSymbolResponse(job[t], th[t].result)
                ELSE GetSymbolDataResponse(job[t], th[t].result)]
    /\ UNCHANGED <<now, file, lock, th, calls, probe, persisted>>

(***************************************************************************)
(* Inputs: the answers of the Oracle and the documents found at start.     *)
(***************************************************************************)
GoodTrend == <<"TREND:", " ", "B", "e">>
PlainTrend == <<"b">>
EndTrend == <<"TREND:", "\n">>
GoodLimit == <<"LIMIT:", " ", "$", "1">>
PlainLimit == <<"$", "1">>
HighLimit == <<"LIMIT:", " ", "$", "2">>
TrendTexts == {GoodTrend, PlainTrend, EndTrend}
LimitTexts == {GoodLimit, PlainLimit}
UpperTexts == {HighLimit}

\* a record written by an earlier refresh at instant t
Stored(symbol, t) == SymbolData(t, symbol, GoodTrend, GoodLimit, HighLimit)
\* the single record of the old format, written at instant t
OldData(t) ==
    [ timestamp |-> Iso(t), trend |-> ExtractTrend(GoodTrend),
      lower_limit |-> ExtractLimit(GoodLimit), upper_limit |-> ExtractLimit(HighLimit) ]
OldDataNoStamp == [ trend |-> ExtractTrend(GoodTrend) ]
Doc(t, symbols) == Json([last_updated |-> Iso(t), symbols |-> symbols])
InitFiles ==
    { NoFile, Garbage }
    \cup { Doc(t, [s \in {"GOLDUSD"} |-> Stored(s, t)]) : t \in {0, 1} }
    \cup { Doc(1, [s \in Symbols |-> Stored(s, IF s = "GOLDUSD" THEN 1 ELSE 0)]) }
    \cup { Json(OldData(t)) : t \in {0, 1} }
    \cup { Json(OldDataNoStamp) }

Inputs == {<<"load", "">>} \cup ({"get", "add"} \X Symbols)

Init ==
    /\ now = StartTime
    /\ file \in InitFiles
    /\ lock = "free"
    /\ th = [t \in Threads |-> Idle]
    /\ calls = MaxCalls
    /\ probe = None
    /\ job = NoJobs
    /\ persisted = LastUpdated(file)

\* one caller: the request thread
Next ==
    \/ Tick(EndTime)
    \/ \E in \in Inputs : Call("api", in[1], in[2])
    \/ Load("api")
    \/ SaveBegin("api", BOOLEAN)
    \/ SaveWrite("api", BOOLEAN)
    \/ OracleTrend("api", TrendTexts, BOOLEAN)
    \/ OracleLower("api", LimitTexts, BOOLEAN)
    \/ OracleUpper("api", UpperTexts, BOOLEAN)
    \/ Return("api")

Spec == Init /\ [][Next]_vars

(***************************************************************************)
(* The staleness rule alone: is_symbol_cache_valid applied to one record   *)
(* at one instant.                                                         *)
(***************************************************************************)
ProbeRecords ==
    { None, EmptyDict, [symbol |-> "GOLDUSD"], [timestamp |-> BadStamp] }
    \cup { [timestamp |-> Iso(t)] : t \in 0..MaxProbe }
    \cup { Stored("GOLDUSD", t) : t \in 0..MaxProbe }

InitValid ==
    /\ now \in 0..MaxProbe
    /\ file = NoFile
    /\ lock = "free"
    /\ th = [t \in Threads |-> Idle]
    /\ calls = 0
    /\ probe \in [symbol_data : ProbeRecords, called : {FALSE}, valid : {FALSE}]
    /\ job = NoJobs
    /\ persisted = LastUpdated(file)

Probe ==
    /\ ~probe.called
    /\ probe' = [probe EXCEPT !.called = TRUE,
                              !.valid = is_symbol_cache_valid(probe.symbol_data, now)]
    /\ UNCHANGED <<now, file, lock, th, calls, job, persisted>>

NextValid == Probe

SpecValid == InitValid /\ [][NextValid]_vars

\* two callers: the request thread and the background updater thread
RaceFiles ==
    { NoFile, Doc(1, [s \in {"GOLDUSD"} |-> Stored(s, 1)]) }

InitRace ==
    /\ now = StartTime
    /\ file \in RaceFiles
    /\ lock = "free"
    /\ th = [t \in Threads |-> Idle]
    /\ calls = MaxCalls
    /\ probe = None
    /\ job = NoJobs
    /\ persisted = LastUpdated(file)

RaceInputs == {<<"load", "">>} \cup ({"add"} \X Symbols)

NextRace ==
    \/ Tick(RaceEndTime)
    \/ \E t \in Threads : \E in \in RaceInputs : Call(t, in[1], in[2])
    \/ \E t \in Threads : Load(t)
    \/ \E t \in Threads : SaveBegin(t, {TRUE})
    \/ \E t \in Threads : SaveWrite(t, {TRUE})
    \/ \E t \in Threads : OracleTrend(t, {GoodTrend}, {TRUE})
    \/ \E t \in Threads : OracleLower(t, {GoodLimit}, {TRUE})
    \/ \E t \in Threads : OracleUpper(t, UpperTexts, {TRUE})
    \/ \E t \in Threads : Return(t)

SpecRace == InitRace /\ [][NextRace]_vars

\* two callers refreshing the same symbol, and failing writes: open or
\* json.dump may raise
LockFiles ==
    { Doc(1, [s \in Symbols |-> Stored(s, IF s = "GOLDUSD" THEN 1 ELSE 0)]),
      Json(OldData(1)) }

InitLock ==
    /\ now = StartTime
    /\ file \in LockFiles
    /\ lock = "free"
    /\ th = [t \in Threads |-> Idle]
    /\ calls = MaxCalls
    /\ probe = None
    /\ job = NoJobs
    /\ persisted = LastUpdated(file)

NextLock ==
    \/ Tick(RaceEndTime)
    \/ \E t \in Threads : Call(t, "add", "GOLDUSD")
    \/ \E t \in Threads : Load(t)
    \/ \E t \in Threads : SaveBegin(t, BOOLEAN)
    \/ \E t \in Threads : SaveWrite(t, BOOLEAN)
    \/ \E t \in Threads : OracleTrend(t, {GoodTrend}, {TRUE})
    \/ \E t \in Threads : OracleLower(t, {GoodLimit}, {TRUE})
    \/ \E t \in Threads : OracleUpper(t, UpperTexts, {TRUE})
    \/ \E t \in Threads : Return(t)

SpecLock == InitLock /\ [][NextLock]_vars

(***************************************************************************)
(* The hourly updater: the background thread runs hourly_cache_updater     *)
(* while the request thread calls add_symbol_to_cache; the two threads     *)
(* interleave freely, only save_cache's lock standing between them.  The   *)
(* Oracle answers and the writes succeed.                                  *)
(***************************************************************************)
SweepFiles ==
    { Doc(1, [s \in {"GOLDUSD"} |-> Stored(s, 1)]),
      Doc(1, [s \in {"EURUSD"} |-> Stored(s, 1)]),
      Doc(1, [s \in Symbols |-> Stored(s, IF s = "GOLDUSD" THEN 1 ELSE 0)]) }
\* the same, and no file and a file of the legacy format
LoopFiles == SweepFiles \cup { NoFile, Json(OldData(1)) }

InitSweep ==
    /\ now = StartTime
    /\ file \in SweepFiles
    /\ lock = "free"
    /\ th = [t \in Threads |-> Idle]
    /\ calls = SweepCalls
    /\ probe = None
    /\ job = [NoJobs EXCEPT !["bg"] = Hourly(StartTime)]
    /\ persisted = LastUpdated(file)

NextSweep ==
    \/ Tick(SweepEndTime)
    \/ \E symbol \in Symbols : Call("api", "add", symbol)
    \/ Return("api")
    \/ SleepWake("bg")
    \/ HourlyCheck("bg")
    \/ UpdateAllList("bg")
    \/ SweepNext("bg")
    \/ \E t \in Threads : Load(t)
    \/ \E t \in Threads : SaveBegin(t, {TRUE})
    \/ \E t \in Threads : SaveWrite(t, {TRUE})
    \/ \E t \in Threads : OracleTrend(t, {GoodTrend}, {TRUE})
    \/ \E t \in Threads : OracleLower(t, {GoodLimit}, {TRUE})
    \/ \E t \in Threads : OracleUpper(t, UpperTexts, {TRUE})

SpecSweep == InitSweep /\ [][NextSweep]_vars

(***************************************************************************)
(* The loop of hourly_cache_updater on its own, with every fault: the      *)
(* Oracle may raise, a write may fail, the file may be unreadable, and     *)
(* either sleep may raise.                                                 *)
(***************************************************************************)
InitLoop ==
    /\ now = StartTime
    /\ file \in LoopFiles
    /\ lock = "free"
    /\ th = [t \in Threads |-> Idle]
    /\ calls = 0
    /\ probe = None
    /\ job = [NoJobs EXCEPT !["bg"] = Hourly(StartTime)]
    /\ persisted = LastUpdated(file)

\* the steps of the updater thread other than the end of its hour's sleep
\* and the sleeps' faults: a thread that can take a step does
UpdaterStep ==
    \/ Cooldown("bg")
    \/ HourlyCheck("bg")
    \/ UpdateAllList("bg")
    \/ SweepNext("bg")
    \/ Load("bg")
    \/ SaveBegin("bg", BOOLEAN)
    \/ SaveWrite("bg", BOOLEAN)
    \/ OracleTrend("bg", {GoodTrend}, BOOLEAN)
    \/ OracleLower("bg", {GoodLimit}, BOOLEAN)
    \/ OracleUpper("bg", UpperTexts, BOOLEAN)

NextLoop ==
    \/ Tick(SweepEndTime)
    \/ SleepWake("bg")
    \/ SleepRaises("bg")
    \/ CooldownRaises("bg")
    \/ UpdaterStep

SpecLoop == InitLoop /\ [][NextLoop]_vars

SpecLoopLive == SpecLoop /\ WF_vars(UpdaterStep)

(***************************************************************************)
(* Automatic refresh: the updater runs its loop while the request thread   *)
(* serves POST /addSymbol for GOLDUSD; no request is made for any other    *)
(* symbol.  The Oracle answers and the writes succeed.  Time passes, the    *)
(* hour's sleep ends once an hour has passed, both threads run whenever    *)
(* they can, and the clock may tick between any two of their steps.        *)
(***************************************************************************)
\* the symbol the requests are for
AutoRequested == "GOLDUSD"

InitAuto ==
    /\ now = StartTime
    /\ file \in LoopFiles
    /\ lock = "free"
    /\ th = [t \in Threads |-> Idle]
    /\ calls = AutoCalls
    /\ probe = None
    /\ job = [NoJobs EXCEPT !["bg"] = Hourly(StartTime)]
    /\ persisted = LastUpdated(file)

AutoStep ==
    \/ SleepWake("bg")
    \/ HourlyCheck("bg")
    \/ UpdateAllList("bg")
    \/ SweepNext("bg")
    \/ Load("bg")
    \/ SaveBegin("bg", {TRUE})
    \/ SaveWrite("bg", {TRUE})
    \/ OracleTrend("bg", {GoodTrend}, {TRUE})
    \/ OracleLower("bg", {GoodLimit}, {TRUE})
    \/ OracleUpper("bg", UpperTexts, {TRUE})

\* the steps of the request thread once add_symbol_to_cache is called
AutoRequestStep ==
    \/ OracleTrend("api", {GoodTrend}, {TRUE})
    \/ OracleLower("api", {GoodLimit}, {TRUE})
    \/ OracleUpper("api", UpperTexts, {TRUE})
    \/ Load("api")
    \/ SaveBegin("api", {TRUE})
    \/ SaveWrite("api", {TRUE})
    \/ Return("api")

NextAuto ==
    \/ Tick(AutoEndTime)
    \/ Call("api", "add", AutoRequested)
    \/ AutoStep
    \/ AutoRequestStep

SpecAuto == InitAuto /\ [][NextAuto]_vars

SpecAutoLive ==
    SpecAuto /\ WF_vars(Tick(AutoEndTime)) /\ WF_vars(AutoStep) /\ WF_vars(AutoRequestStep)

(***************************************************************************)
(* start_cache_updater, run by the main thread before the server starts:   *)
(* it starts the updater thread, then makes the initial update while the   *)
(* updater runs.                                                           *)
(***************************************************************************)
WarmFiles ==
    { NoFile, Garbage,
      Doc(1, [s \in Symbols |-> Stored(s, IF s = "GOLDUSD" THEN 1 ELSE 0)]),
      Json(OldData(1)) }

InitWarm ==
    /\ now = StartTime
    /\ file \in WarmFiles
    /\ lock = "free"
    /\ th = [t \in Threads |-> Idle]
    /\ calls = 0
    /\ probe = None
    /\ job = [NoJobs EXCEPT !["api"] = Warmup]
    /\ persisted = LastUpdated(file)

\* the initial update's Oracle calls may fail, the updater's succeed
WarmOutcomes(t) == IF t = "api" THEN BOOLEAN ELSE {TRUE}

NextWarm ==
    \/ Tick(WarmEndTime)
    \/ WarmStart("api", "bg")
    \/ WarmLoaded("api")
    \/ WarmNext("api")
    \/ SleepWake("bg")
    \/ HourlyCheck("bg")
    \/ UpdateAllList("bg")
    \/ SweepNext("bg")
    \/ \E t \in Threads : Load(t)
    \/ \E t \in Threads : SaveBegin(t, {TRUE})
    \/ \E t \in Threads : SaveWrite(t, {TRUE})
    \/ \E t \in Threads : OracleTrend(t, {GoodTrend}, WarmOutcomes(t))
    \/ \E t \in Threads : OracleLower(t, {GoodLimit}, WarmOutcomes(t))
    \/ \E t \in Threads : OracleUpper(t, UpperTexts, WarmOutcomes(t))

SpecWarm == InitWarm /\ [][NextWarm]_vars

(***************************************************************************)
(* The HTTP handlers GET /getSymbolData and POST /addSymbol, served one at *)
(* a time by the request thread (the handlers are coroutines of one event  *)
(* loop and do not await).                                                 *)
(***************************************************************************)
ApiFiles ==
    { NoFile,
      Doc(1, [s \in {"GOLDUSD"} |-> Stored(s, 0)]),
      Doc(1, [s \in {"EURUSD"} |-> Stored(s, 1)]) }

RequestSymbols == {"GOLDUSD", "EURUSD", "eurusd"}

InitApi ==
    /\ now = StartTime
    /\ file \in ApiFiles
    /\ lock = "free"
    /\ th = [t \in Threads |-> Idle]
    /\ calls = ApiCalls
    /\ probe = None
    /\ job = NoJobs
    /\ persisted = LastUpdated(file)

NextApi ==
    \/ Tick(ApiEndTime)
    \/ \E route \in {"getSymbolData", "addSymbol"} : \E symbol \in RequestSymbols :
          Request("api", route, symbol)
    \/ Respond("api")
    \/ Load("api")
    \/ SaveBegin("api", BOOLEAN)
    \/ SaveWrite("api", BOOLEAN)
    \/ OracleTrend("api", {GoodTrend}, BOOLEAN)
    \/ OracleLower("api", {GoodLimit}, BOOLEAN)
    \/ OracleUpper("api", UpperTexts, BOOLEAN)

SpecApi == InitApi /\ [][NextApi]_vars

(***************************************************************************)
(* The extraction alone: lines 74-85 applied to one raw answer of one      *)
(* kind, and the extraction of the single-analysis handlers of src/api.py  *)
(* applied to the same answer.                                             *)
(***************************************************************************)
Kinds == {"Trend", "LowerLimit", "UpperLimit"}
\* the marker looked for in an answer of the kind (lines 76, 80, 84)
MarkerOf(kind) == IF kind = "Trend" THEN "TREND:" ELSE "LIMIT:"
Chars == {"TREND:", "LIMIT:", " ", "\n", "B", "$"}
RawTexts == UNION {[1..n -> Chars] : n \in 0..MaxLen}

InitExtract ==
    /\ now = StartTime
    /\ file = NoFile
    /\ lock = "free"
    /\ th = [t \in Threads |-> Idle]
    /\ calls = 0
    /\ probe \in [kind : Kinds, text : RawTexts, called : {FALSE}, raised : {FALSE},
                  field : {None}, api : {None}]
    /\ job = NoJobs
    /\ persisted = LastUpdated(file)

\* the first line of result, split at its newlines, that holds marker m:
\* [line for line in result.split('\n') if m in line][0]
MarkerLine(result, m) ==
    LET a == FirstAt(result, m)
        before == {i \in 1..(a - 1) : result[i] = "\n"}
        after == {i \in (a + 1)..Len(result) : result[i] = "\n"}
        from == IF before = {} THEN 1
                ELSE (CHOOSE i \in before : \A j \in before : j <= i) + 1
        to == IF after = {} THEN Len(result)
              ELSE (CHOOSE i \in after : \A j \in after : i <= j) - 1
    IN  SubSeq(result, from, to)
\* s.strip()
Strip(s) ==
    LET keep == {i \in 1..Len(s) : ~IsSpace(s[i])}
    IN  IF keep = {} THEN <<>>
        ELSE SubSeq(s, CHOOSE i \in keep : \A j \in keep : i <= j,
                       CHOOSE i \in keep : \A j \in keep : j <= i)
\* trend of GET /trend (api.py lines 98-103)
ApiTrend(result) ==
    IF Contains(result, "TREND:")
    THEN Lower(Strip(SplitSecond(MarkerLine(result, "TREND:"), "TREND:")))
    ELSE Unknown
\* limit of GET /lower-limit and GET /upper-limit (api.py lines 123-128
\* and 148-153)
ApiLimit(result) ==
    IF Contains(result, "LIMIT:")
    THEN Strip(SplitSecond(MarkerLine(result, "LIMIT:"), "LIMIT:"))
    ELSE NA

\* lines 75-77, 79-81 or 83-85 on the answer (field, raised), and the
\* handler of src/api.py for the kind on the same answer (api)
Extract ==
    /\ ~probe.called
    /\ probe' =
         LET api == IF probe.kind = "Trend" THEN ApiTrend(probe.text)
                    ELSE ApiLimit(probe.text)
         IN  IF ExtractRaises(probe.text, MarkerOf(probe.kind))
             THEN [probe EXCEPT !.called = TRUE, !.raised = TRUE, !.api = api]
             ELSE [probe EXCEPT !.called = TRUE, !.api = api,
                                !.field = IF probe.kind = "Trend"
                                          THEN ExtractTrend(probe.text)
                                          ELSE ExtractLimit(probe.text)]
    /\ UNCHANGED <<now, file, lock, th, calls, job, persisted>>

NextExtract == Extract

SpecExtract == InitExtract /\ [][NextExtract]_vars

(***************************************************************************)
(* Properties.                                                             *)
(***************************************************************************)
\* the record is there, carries a timestamp, and the timestamp parses
HasInstant(r) ==
    /\ r # None
    /\ "timestamp" \in DOMAIN r
    /\ Parses(r.timestamp)

\* C1: is_symbol_cache_valid(record) is true if and only if the record is
\* present, carries a parseable timestamp and now - timestamp is strictly
\* less than one hour; in particular a record aged exactly one hour, an
\* absent record, a record without a timestamp and a record with an
\* unparsable timestamp are invalid.
C1_ValidIffYoungerThanAnHour ==
    (probe # None /\ probe.called) =>
        LET r == probe.symbol_data
        IN  /\ probe.valid <=> (HasInstant(r) /\ now - r.timestamp.iso < HOUR)
            /\ (HasInstant(r) /\ now - r.timestamp.iso = HOUR) => ~probe.valid
            /\ r \in {None, EmptyDict, [symbol |-> "GOLDUSD"], [timestamp |-> BadStamp]}
                  => ~probe.valid

\* C1 happens: a record one tick short of an hour old was found valid
C1_Witness ==
    /\ probe # None
    /\ probe.called
    /\ HasInstant(probe.symbol_data)
    /\ now - probe.symbol_data.timestamp.iso = HOUR - 1
    /\ probe.valid

\* the record the backing document f holds for symbol: under the key in
\* the symbols map, or, in the old single-symbol format, the document itself
\* for GOLDUSD
StoredRecord(f, symbol) ==
    IF f.kind # "json" THEN None
    ELSE IF "symbols" \in DOMAIN f.data
    THEN (IF symbol \in DOMAIN f.data.symbols THEN f.data.symbols[symbol] ELSE None)
    ELSE (IF symbol = "GOLDUSD" THEN f.data ELSE None)
OldFormat(f) == f.kind = "json" /\ "symbols" \notin DOMAIN f.data
FreshAt(r, clock) == HasInstant(r) /\ clock - r.timestamp.iso < HOUR
StaleAt(r, clock) == HasInstant(r) /\ clock - r.timestamp.iso >= HOUR
\* thread t runs get_symbol_data_cached and has made the validity check
Checked(t) == th[t].op = "get" /\ th[t].got # None
AllKinds == <<"Trend", "LowerLimit", "UpperLimit">>
\* the backing document holds record r for symbol
Holds(f, symbol, r) ==
    /\ f.kind = "json"
    /\ "symbols" \in DOMAIN f.data
    /\ symbol \in DOMAIN f.data.symbols
    /\ f.data.symbols[symbol] = r

\* C2 as stated: whenever the stored record of the requested symbol is
\* valid, get_symbol_data_cached returns exactly that record, invokes no
\* Oracle and leaves the backing document unchanged (looked at in the calls
\* in which no write fails).
C2_HitLeavesDocumentUnchanged ==
    \A t \in Threads :
        ( /\ Checked(t)
          /\ FreshAt(StoredRecord(th[t].read, th[t].sym), th[t].tchk)
          /\ th[t].wfail = {} ) =>
            /\ th[t].pc = "done"
            /\ th[t].hit
            /\ th[t].result = StoredRecord(th[t].read, th[t].sym)
            /\ th[t].oracle = <<>>
            /\ file = th[t].read

\* C2 amended: whenever the stored record of the requested symbol is valid,
\* get_symbol_data_cached returns exactly that record and invokes no Oracle;
\* it leaves the backing document unchanged unless the document was in the
\* old single-symbol format, which load_cache's migration rewrites.
C2_HitReturnsStoredRecord ==
    \A t \in Threads :
        (Checked(t) /\ FreshAt(StoredRecord(th[t].read, th[t].sym), th[t].tchk)) =>
            /\ th[t].pc = "done"
            /\ th[t].hit
            /\ th[t].result = StoredRecord(th[t].read, th[t].sym)
            /\ th[t].oracle = <<>>
            /\ ~OldFormat(th[t].read) => file = th[t].read
            /\ OldFormat(th[t].read) => th[t].migrated

\* C2 happens: a call found a valid record in a document of the new format
\* and has returned it
C2_Witness ==
    \E t \in Threads :
        /\ Checked(t)
        /\ ~OldFormat(th[t].read)
        /\ FreshAt(StoredRecord(th[t].read, th[t].sym), th[t].tchk)
        /\ th[t].pc = "done"
        /\ th[t].result = StoredRecord(th[t].read, th[t].sym)

\* C3: whenever the stored record of the requested symbol is stale (age of
\* one hour or more), get_symbol_data_cached goes on to a refresh and never
\* returns the stale record; a record it returns has a timestamp at or
\* after the instant of the call.
C3_StaleIsRefreshed ==
    \A t \in Threads :
        (Checked(t) /\ StaleAt(StoredRecord(th[t].read, th[t].sym), th[t].tchk)) =>
            /\ ~th[t].hit
            /\ th[t].pc \in {"trend", "lower", "upper", "load", "save", "write", "done"}
            /\ th[t].pc = "done" =>
                /\ th[t].oracle # <<>>
                /\ th[t].result # StoredRecord(th[t].read, th[t].sym)
                /\ th[t].result # None =>
                    /\ HasInstant(th[t].result)
                    /\ th[t].result.timestamp.iso >= th[t].t0

\* C3 happens: a call that found a record aged exactly one hour has
\* returned a new record
C3_Witness ==
    \E t \in Threads :
        /\ Checked(t)
        /\ HasInstant(StoredRecord(th[t].read, th[t].sym))
        /\ th[t].tchk - StoredRecord(th[t].read, th[t].sym).timestamp.iso = HOUR
        /\ th[t].pc = "done"
        /\ th[t].result # None

\* C4: get_symbol_data_cached on an empty store (no file) makes exactly
\* three Oracle invocations, Trend, LowerLimit, UpperLimit in this order,
\* and afterwards (the write not having failed) the backing document holds
\* a record for the symbol whose symbol field is the requested symbol.
C4_ColdMissThreeInvocations ==
    \A t \in Threads :
        (th[t].op = "get" /\ th[t].pc = "done" /\ th[t].read = NoFile) =>
            /\ th[t].oracle = AllKinds
            /\ th[t].wfail = {} =>
                /\ StoredRecord(file, th[t].sym) # None
                /\ StoredRecord(file, th[t].sym).symbol = th[t].sym

\* C5: if the Oracle raises for one kind during a refresh, update_symbol_data
\* still returns a record and caches it; the field of the failed kind holds
\* its sentinel.
C5_PartialFailureKeepsRecord ==
    \A t \in Threads :
        (th[t].pc = "done" /\ th[t].raised \in {"Trend", "LowerLimit", "UpperLimit"}) =>
            /\ th[t].result # None
            /\ th[t].raised = "Trend" => th[t].result.trend = Unknown
            /\ th[t].raised = "LowerLimit" => th[t].result.lower_limit = NA
            /\ th[t].raised = "UpperLimit" => th[t].result.upper_limit = NA
            /\ th[t].wfail = {} => Holds(file, th[t].sym, th[t].result)

\* C6: if the write of the backing document fails during a refresh whose
\* three Oracle calls succeeded, update_symbol_data returns the record it
\* has just computed (it does not raise and does not return None) and the
\* write lock is released.
C6_WriteFailureStillReturns ==
    \A t \in Threads :
        "upd" \in th[t].wfail =>
            /\ th[t].pc = "done"
            /\ th[t].oracle = AllKinds
            /\ th[t].result # None
            /\ th[t].result = th[t].rec
            /\ th[t].result.symbol = th[t].sym
            /\ th[t].result.timestamp.iso >= th[t].t0
            /\ lock = "free"

\* C6 happens: a refresh whose write failed has returned
C6_Witness ==
    \E t \in Threads :
        /\ "upd" \in th[t].wfail
        /\ th[t].pc = "done"
        /\ th[t].op \in {"get", "add"}

\* C7: load_cache does not raise; when the backing document is missing,
\* unreadable or not parseable it returns the empty document
\* (last_updated None, no symbols), and a get_symbol_data_cached that
\* loaded it treats the symbol as a miss and refreshes it.
C7_UnreadableLoadsEmpty ==
    \A t \in Threads :
        (th[t].got # None /\ th[t].read.kind # "json") =>
            /\ th[t].got = [last_updated |-> None, symbols |-> EmptyDict]
            /\ ~th[t].migrated
            /\ th[t].op = "load" => (th[t].pc = "done" /\ th[t].result = th[t].got)
            /\ th[t].op = "get" =>
                /\ ~th[t].hit
                /\ th[t].seen = None
                /\ th[t].pc \in {"trend", "lower", "upper", "load", "save", "write", "done"}
                /\ th[t].pc = "done" => th[t].oracle # <<>>

\* C7 happens: a get_symbol_data_cached that found a corrupt file has
\* refreshed the symbol and returned the new record
C7_Witness ==
    \E t \in Threads :
        /\ th[t].op = "get"
        /\ th[t].read.kind = "garbage"
        /\ th[t].pc = "done"
        /\ th[t].result # None
        /\ Holds(file, th[t].sym, th[t].result)

\* C8: load_cache on a document without a symbols key returns a document
\* whose symbols map is exactly {GOLDUSD: the original fields} and, its
\* write succeeding, persists that form; load_cache on a document of the
\* new format (the migrated one included) returns it as it is, does not
\* migrate or nest it again and does not write.
C8_MigrationOnceAndExact ==
    \A t \in Threads :
        (th[t].op = "load" /\ th[t].pc = "done") =>
            /\ OldFormat(th[t].read) =>
                /\ th[t].migrated
                /\ DOMAIN th[t].got.symbols = {"GOLDUSD"}
                /\ th[t].got.symbols["GOLDUSD"] = th[t].read.data
                /\ th[t].result = th[t].got
                /\ "mig" \in th[t].wrote => file = Json(th[t].got)
            /\ (th[t].read.kind = "json" /\ ~OldFormat(th[t].read)) =>
                /\ ~th[t].migrated
                /\ th[t].got = th[t].read.data
                /\ th[t].result = th[t].got
                /\ th[t].wrote = {}
                /\ file = th[t].read

\* C8 happens: a second load_cache has returned the document that an
\* earlier load_cache migrated and persisted
C8_Witness ==
    \E t \in Threads :
        /\ th[t].op = "load"
        /\ th[t].pc = "done"
        /\ ~th[t].migrated
        /\ th[t].read.kind = "json"
        /\ th[t].got = th[t].read.data
        /\ DOMAIN th[t].got.symbols = {"GOLDUSD"}
        /\ th[t].got.symbols["GOLDUSD"] = OldData(1)

\* C9: a load_cache that runs while another thread is in save_cache finds
\* the complete previous or the complete new document, never an empty or
\* partly written file.
C9_LoadNeverSeesTornFile ==
    \A t \in Threads : th[t].read.kind # "torn"

\* C10: a refresh's record is lost only through the interleaving of another
\* refresh: when two refreshes of different symbols have both written, the
\* file is the document of one of them, and if it lacks the record of
\* thread t then it is the document of the other thread u, which u had
\* loaded before t's record was in the file.
C10_LostOnlyToStaleLoad ==
    \A t \in Threads : \A u \in Threads \ {t} :
        ( /\ th[t].op = "add" /\ th[t].pc = "done" /\ "upd" \in th[t].wrote
          /\ th[u].op = "add" /\ th[u].pc = "done" /\ "upd" \in th[u].wrote
          /\ th[t].sym # th[u].sym ) =>
            /\ file \in {Json(th[t].doc), Json(th[u].doc)}
            /\ Holds(file, th[t].sym, th[t].rec) \/ Holds(file, th[u].sym, th[u].rec)
            /\ ~Holds(file, th[t].sym, th[t].rec) =>
                /\ file = Json(th[u].doc)
                /\ StoredRecord(Json(th[u].got), th[t].sym) # th[t].rec

\* C10 happens: two refreshes of different symbols have both completed and
\* written, and the file lacks the record of one of them
C10_Witness ==
    \E t \in Threads : \E u \in Threads \ {t} :
        /\ th[t].op = "add" /\ th[t].pc = "done" /\ "upd" \in th[t].wrote
        /\ th[u].op = "add" /\ th[u].pc = "done" /\ "upd" \in th[u].wrote
        /\ th[t].sym # th[u].sym
        /\ th[t].result = th[t].rec
        /\ th[u].result = th[u].rec
        /\ StoredRecord(file, th[t].sym) = None
        /\ Holds(file, th[u].sym, th[u].rec)

\* C11: two concurrent refreshes of the same symbol are not deduplicated
\* (each makes its own three Oracle invocations) and, once both have
\* completed, the stored record of the symbol is the record of the
\* save_cache that ran last, and the records of all other symbols are as the
\* two refreshes found them before their writes.
C11_SameSymbolLastWriterWins ==
    \A t \in Threads : \A u \in Threads \ {t} :
        ( /\ th[t].op = "add" /\ th[t].pc = "done" /\ "upd" \in th[t].wrote
          /\ th[u].op = "add" /\ th[u].pc = "done" /\ "upd" \in th[u].wrote
          /\ th[t].sym = th[u].sym ) =>
            /\ th[t].oracle = AllKinds
            /\ th[u].oracle = AllKinds
            /\ file \in {Json(th[t].doc), Json(th[u].doc)}
            /\ Holds(file, th[t].sym, th[t].rec) \/ Holds(file, th[u].sym, th[u].rec)
            /\ \A s \in Symbols \ {th[t].sym} :
                /\ StoredRecord(file, s) = StoredRecord(th[t].read, s)
                /\ StoredRecord(file, s) = StoredRecord(th[u].read, s)

\* the symbols in a sequence of symbols
Range(q) == {q[i] : i \in 1..Len(q)}
\* the hourly updater's cycle has run to its end
CycleEnded(t) == job[t].kind = "hourly" /\ job[t].ended
\* the symbols tracked in the document the cycle's check loaded
Tracked(t) == DOMAIN job[t].seen.symbols
\* symbol, tracked at the check, had a record that was valid then
FreshAtCheck(t, symbol) == FreshAt(job[t].seen.symbols[symbol], job[t].tchk)

\* C12: in a cycle of hourly_cache_updater, if at least one tracked symbol
\* is not valid at the check, update_symbol_data is called for every tracked
\* symbol in that cycle, those with a valid record included, and each call
\* invokes the Oracle.
C12_AnyStaleSweepsAllTracked ==
    (CycleEnded("bg") /\ \E s \in Tracked("bg") : ~FreshAtCheck("bg", s)) =>
        /\ job["bg"].needs_update
        /\ Tracked("bg") \subseteq Range(job["bg"].refreshed)
        /\ job["bg"].oracle >= Len(job["bg"].refreshed)

\* C13: a cycle that sweeps refreshes exactly the symbols tracked in the
\* document, GOLDUSD in their place only when there is none; it does not
\* refresh GOLDUSD, or add it to the document, when other symbols are
\* tracked and GOLDUSD is not (looked at in the cycles in which nothing
\* raised).
C13_SweepRefreshesExactlyTracked ==
    (CycleEnded("bg") /\ job["bg"].needs_update /\ job["bg"].errors = {}) =>
        /\ Range(job["bg"].refreshed) =
              (IF Tracked("bg") = {} THEN {"GOLDUSD"} ELSE Tracked("bg"))
        /\ (Tracked("bg") # {} /\ "GOLDUSD" \notin Tracked("bg"))
              => StoredRecord(file, "GOLDUSD") = None

\* C14: a cycle that finds a non-empty tracked set and every tracked symbol
\* valid at the check makes no Oracle invocation and no save_cache call,
\* and calls update_symbol_data for no symbol.
C14_AllValidCycleIsSkipped ==
    ( /\ CycleEnded("bg")
      /\ Tracked("bg") # {}
      /\ \A s \in Tracked("bg") : FreshAtCheck("bg", s) ) =>
        /\ ~job["bg"].needs_update
        /\ job["bg"].refreshed = <<>>
        /\ job["bg"].oracle = 0
        /\ job["bg"].saves = 0

\* C14 happens: a cycle has ended that found a tracked symbol and every
\* tracked symbol valid
C14_Witness ==
    /\ CycleEnded("bg")
    /\ Tracked("bg") # {}
    /\ \A s \in Tracked("bg") : FreshAtCheck("bg", s)
    /\ job["bg"].oracle = 0

\* the number of times symbol occurs in a sequence of symbols
Times(q, symbol) == Cardinality({i \in 1..Len(q) : q[i] = symbol})

\* C15: the initial update of start_cache_updater: if the loaded document
\* tracks no symbol, update_symbol_data is called for GOLDUSD and nothing
\* else; otherwise it is called once for every tracked symbol whose record
\* is not valid when the loop checks it, and for no symbol whose record is
\* valid then, and for no symbol that is not tracked.
C15_WarmupRefreshesInvalidOnly ==
    (job["api"].kind = "warmup" /\ job["api"].pc = "done") =>
        LET fr == job["api"]
            tracked == DOMAIN fr.seen.symbols
        IN  IF tracked = {} THEN fr.refreshed = <<"GOLDUSD">>
            ELSE /\ Range(fr.refreshed) \subseteq tracked
                 /\ DOMAIN fr.checked = tracked
                 /\ \A s \in tracked :
                      Times(fr.refreshed, s) =
                          (IF FreshAt(fr.seen.symbols[s], fr.checked[s]) THEN 0 ELSE 1)

\* C15 happens: an initial update that found one tracked symbol valid and
\* another stale has refreshed the stale one only
C15_Witness ==
    /\ job["api"].kind = "warmup"
    /\ job["api"].pc = "done"
    /\ \E a \in DOMAIN job["api"].seen.symbols : \E b \in DOMAIN job["api"].seen.symbols :
        /\ FreshAt(job["api"].seen.symbols[a], job["api"].checked[a])
        /\ StaleAt(job["api"].seen.symbols[b], job["api"].checked[b])
        /\ job["api"].refreshed = <<b>>
        /\ StoredRecord(file, a) = job["api"].seen.symbols[a]
        /\ FreshAt(StoredRecord(file, b), now)

\* C16: the loop of hourly_cache_updater never ends: whatever raises (the
\* Oracle, a read, a write, a sleep), the updater, once it has left the
\* sleep at the top of the loop, comes back to it, through the cooldown
\* when the exception reached the loop's handler.
C16_UpdaterAlwaysReturnsToSleep ==
    (job["bg"].pc # "sleep") ~> (job["bg"].pc = "sleep")

\* the records of the symbols map of backing document f
RecordsOf(f) ==
    IF f.kind = "json" /\ "symbols" \in DOMAIN f.data
    THEN {<<k, f.data.symbols[k]>> : k \in DOMAIN f.data.symbols}
    ELSE {}
\* the upper-case form of a symbol, by the table of its spellings
UpperCaseOf(symbol) ==
    IF symbol \in {"EURUSD", "eurusd"} THEN "EURUSD"
    ELSE IF symbol \in {"GOLDUSD", "goldusd"} THEN "GOLDUSD"
    ELSE symbol
\* thread t has answered a request of the route
Answered(t, route) ==
    job[t].kind = "http" /\ job[t].pc = "answered" /\ job[t].route = route

\* C17: get_symbol_data_cached looks up and refreshes the upper-case form of
\* the requested symbol: every key of the symbols map and every record's
\* symbol field is upper-case, and a request for "eurusd" that finds a
\* valid record of EURUSD returns that record and invokes no Oracle.
C17_SymbolsAreUppercase ==
    /\ \A kr \in RecordsOf(file) :
          /\ kr[1] = UpperCaseOf(kr[1])
          /\ "symbol" \in DOMAIN kr[2] => kr[2].symbol = UpperCaseOf(kr[2].symbol)
    /\ \A t \in Threads :
          ( /\ Answered(t, "getSymbolData")
            /\ FreshAt(StoredRecord(th[t].read, UpperCaseOf(job[t].symbol)), th[t].tchk) ) =>
              /\ th[t].oracle = <<>>
              /\ th[t].result = StoredRecord(th[t].read, UpperCaseOf(job[t].symbol))

\* C18: POST /addSymbol makes the three Oracle invocations and replaces the
\* record of the symbol, whether or not it was valid, and once it has
\* answered 'added successfully' the backing document tracks the symbol
\* (looked at in the requests in which no write fails).
C18_AddSymbolRefreshesAndTracks ==
    \A t \in Threads :
        (Answered(t, "addSymbol") /\ job[t].status = 200 /\ th[t].wfail = {}) =>
            /\ th[t].oracle = AllKinds
            /\ StoredRecord(file, UpperCaseOf(job[t].symbol)) # None
            /\ Holds(file, UpperCaseOf(job[t].symbol), job[t].data)
            /\ job[t].data.timestamp.iso >= th[t].t0

\* what follows the first marker m on the line of text that holds it
RestOfLine(text, m) ==
    LET a == CHOOSE i \in 1..Len(text) : text[i] = m /\ \A j \in 1..(i - 1) : text[j] # m
        ends == {i \in (a + 1)..Len(text) : text[i] = "\n"}
        b == IF ends = {} THEN Len(text)
             ELSE (CHOOSE i \in ends : \A j \in ends : i <= j) - 1
    IN  SubSeq(text, a + 1, b)
\* the first whitespace-delimited token of line s, <<>> when it has none
TokenOf(s) ==
    LET starts == {i \in 1..Len(s) : s[i] # " "}
    IN  IF starts = {} THEN <<>>
        ELSE LET a == CHOOSE i \in starts : \A j \in starts : i <= j
                 stops == {i \in a..Len(s) : s[i] = " "}
                 b == IF stops = {} THEN Len(s)
                      ELSE (CHOOSE i \in stops : \A j \in stops : i <= j) - 1
             IN  SubSeq(s, a, b)
LowerCased(s) ==
    [i \in 1..Len(s) |-> IF s[i] = "B" THEN "b"
                         ELSE IF s[i] = "LIMIT:" THEN "limit:"
                         ELSE IF s[i] = "TREND:" THEN "trend:" ELSE s[i]]
HasMarker(text, m) == \E i \in 1..Len(text) : text[i] = m

\* C19: the field extracted from a raw answer that contains the marker is
\* the first whitespace-delimited token after the marker on the first line
\* that contains it, lower-cased for the trend and as it is for a limit; the
\* field extracted from an answer without the marker is "unknown" for the
\* trend and "N/A" for a limit.
C19_FieldIsFirstTokenOnMarkerLine ==
    (probe # None /\ "text" \in DOMAIN probe /\ probe.called) =>
        LET m == MarkerOf(probe.kind)
            token == TokenOf(RestOfLine(probe.text, m))
        IN  IF HasMarker(probe.text, m)
            THEN /\ ~probe.raised
                 /\ probe.field = (IF probe.kind = "Trend" THEN LowerCased(token)
                                   ELSE token)
            ELSE /\ ~probe.raised
                 /\ probe.field = (IF probe.kind = "Trend"
                                   THEN <<"u", "n", "k", "n", "o", "w", "n">>
                                   ELSE <<"N", "/", "A">>)

\* C20: the extraction step of update_symbol_data does not raise, whatever
\* the three raw answers are: a refresh whose three Oracle calls answered
\* produces a record, returns it and (no write failing) caches it.
C20_ExtractionNeverRaises ==
    \A t \in Threads :
        (th[t].pc = "done" /\ th[t].oracle = AllKinds /\ th[t].raised # "UpperLimit") =>
            /\ th[t].raised = ""
            /\ th[t].result # None
            /\ th[t].wfail = {} => Holds(file, th[t].sym, th[t].result)

\* the fields of record r that GET /getSymbolData answers with, for symbol
Fields(symbol, r) ==
    [ symbol |-> symbol, trend |-> r.trend, lower_limit |-> r.lower_limit,
      upper_limit |-> r.upper_limit, timestamp |-> r.timestamp ]

\* C21 as stated: GET /getSymbolData answers 503 whenever the requested
\* symbol has no record in the cache document, and otherwise answers with
\* the fields of the stored record.  Read for the requests none of whose
\* Oracle calls raised.
C21_AbsentAnswers503 ==
    \A t \in Threads :
        (Answered(t, "getSymbolData") /\ th[t].raised = "") =>
            LET stored == StoredRecord(th[t].read, job[t].symbol)
            IN  IF stored = None THEN job[t].status = 503
                ELSE /\ job[t].status = 200
                     /\ job[t].data = Fields(job[t].symbol, stored)

\* C21 amended: GET /getSymbolData reads through the cache: it answers 503
\* exactly when get_symbol_data_cached returned nothing, which is when the
\* symbol has no valid record and the refresh raised; otherwise it answers
\* 200 with the fields of the stored record when that record is valid, and
\* of the record a refresh has just made when it is absent or stale.
C21_ReadThroughAnswers ==
    \A t \in Threads :
        Answered(t, "getSymbolData") =>
            LET stored == StoredRecord(th[t].read, job[t].symbol)
            IN  /\ job[t].status = 503 <=> th[t].result = None
                /\ th[t].result = None <=>
                      (~FreshAt(stored, th[t].tchk) /\ th[t].raised # "")
                /\ th[t].result # None =>
                      /\ job[t].status = 200
                      /\ job[t].data = Fields(job[t].symbol, th[t].result)
                      /\ FreshAt(stored, th[t].tchk) =>
                            (th[t].result = stored /\ th[t].oracle = <<>>)
                      /\ ~FreshAt(stored, th[t].tchk) =>
                            /\ th[t].oracle = AllKinds
                            /\ th[t].result.timestamp.iso >= th[t].t0

\* C21 happens: a request for a symbol without a record, whose refresh
\* raised, has been answered 503
C21_Witness ==
    \E t \in Threads :
        /\ Answered(t, "getSymbolData")
        /\ StoredRecord(th[t].read, job[t].symbol) = None
        /\ th[t].raised # ""
        /\ job[t].status = 503

\* C22: last_updated of the persisted document is the instant of the most
\* recent write: in every document of the current format on disk it is an
\* instant, not later than now and not earlier than the timestamp of any
\* record of the document, and across the writes of both threads, in any
\* interleaving, the last_updated written in full never decreases.
C22_LastUpdatedIsLatestWrite ==
    /\ [](\/ file.kind # "json"
          \/ "symbols" \notin DOMAIN file.data
          \/ /\ Parses(file.data.last_updated)
             /\ file.data.last_updated = persisted
             /\ file.data.last_updated.iso <= now
             /\ \A kr \in RecordsOf(file) :
                   HasInstant(kr[2]) =>
                       kr[2].timestamp.iso <= file.data.last_updated.iso)
    /\ [][persisted' # persisted =>
             /\ Parses(persisted')
             /\ Parses(persisted) => persisted'.iso >= persisted.iso]_vars

\* C22 happens: both threads have written a refresh, the later write was
\* stamped after the record of the earlier one
C22_Witness ==
    /\ \A t \in Threads : "upd" \in th[t].wrote
    /\ file.kind = "json"
    /\ file.data.last_updated = Iso(RaceEndTime)
    /\ \E kr \in RecordsOf(file) :
          /\ "raw_responses" \in DOMAIN kr[2]
          /\ kr[2].timestamp = Iso(StartTime)

\* cache_lock as save_cache uses it: at most one thread is between the
\* stamping of last_updated and the end of the file write, the lock is held
\* by exactly that thread and is free on every way out of save_cache, a
\* failed write included
WritersSerialize ==
    /\ Cardinality({t \in Threads : th[t].pc = "write"}) <= 1
    /\ \A t \in Threads : lock = t <=> th[t].pc = "write"
    /\ lock = "free" <=> \A t \in Threads : th[t].pc # "write"
\* thread t is inside load_cache, in the save_cache of line 28: about to
\* acquire cache_lock, or holding it
InMigrationSave(t) == th[t].saving = "mig" /\ th[t].pc \in {"save", "write"}

\* C23 as stated: writers serialize on cache_lock, the lock is released on
\* every exit path, and load_cache never acquires the lock, so that no
\* thread inside load_cache waits for the lock or holds it.
C23_WritersSerializeLoadsNeverLock ==
    /\ WritersSerialize
    /\ \A t \in Threads : ~InMigrationSave(t)

\* C23, amended: writers serialize on cache_lock and the lock is released on
\* every exit path; load_cache reads the file without touching the lock,
\* whoever holds it, and goes on to save_cache, where it acquires the lock
\* and can wait for a writer, exactly when the document it read is of the
\* legacy format.
C23_WritersSerializeLoadsLockToMigrate ==
    /\ []WritersSerialize
    /\ [][\A t \in Threads :
            (th[t].pc = "load" /\ th'[t] # th[t]) =>
                /\ lock' = lock
                /\ InMigrationSave(t)' <=> OldFormat(file)
                /\ InMigrationSave(t)' => th'[t].pc = "save"]_vars

\* C23 happens: a thread inside load_cache, having read a legacy document,
\* waits at the lock of save_cache while the other thread holds it for its
\* own write
C23_Witness ==
    \E t, u \in Threads :
        /\ t # u
        /\ lock = u
        /\ th[u].pc = "write"
        /\ th[t].pc = "save"
        /\ InMigrationSave(t)
        /\ OldFormat(th[t].read)

\* record r, stored under key symbol, is as one refresh of symbol assembles
\* it: its fields are the extractions of its own raw answers
Whole(symbol, r) ==
    /\ DOMAIN r = {"timestamp", "symbol", "trend", "lower_limit", "upper_limit",
                   "raw_responses"}
    /\ Parses(r.timestamp)
    /\ r = SymbolData(r.timestamp.iso, symbol, r.raw_responses.trend,
                      r.raw_responses.lower_limit, r.raw_responses.upper_limit)
\* the records of the legacy format, which load_cache moves as they are
LegacyRecords == {OldData(0), OldData(1), OldDataNoStamp}

\* C24: records are replaced whole, never patched: every record of the
\* document on disk is exactly what one refresh of its symbol assembled
\* (or the legacy record, moved as it was), and after a refresh has written,
\* the record stored for its symbol is the one record it assembled and
\* returned, in every field.
C24_RecordsAreReplacedWhole ==
    /\ \A kr \in RecordsOf(file) :
          IF "raw_responses" \in DOMAIN kr[2] THEN Whole(kr[1], kr[2])
          ELSE kr[1] = "GOLDUSD" /\ kr[2] \in LegacyRecords
    /\ \A t \in Threads :
          (th[t].pc = "done" /\ "upd" \in th[t].wrote) =>
              /\ th[t].result = th[t].rec
              /\ Holds(file, th[t].sym, th[t].rec)

\* C24 happens: a refresh has replaced a stored record by one that differs
\* from it in timestamp, trend, lower limit and raw answers
C24_Witness ==
    \E t \in Threads :
        LET old == StoredRecord(th[t].read, th[t].sym)
        IN  /\ th[t].pc = "done"
            /\ "upd" \in th[t].wrote
            /\ old # None
            /\ "raw_responses" \in DOMAIN old
            /\ Holds(file, th[t].sym, th[t].rec)
            /\ th[t].rec.timestamp # old.timestamp
            /\ th[t].rec.trend # old.trend
            /\ th[t].rec.lower_limit # old.lower_limit
            /\ th[t].rec.upper_limit = old.upper_limit

\* the Oracle kinds invoked when the call of kind raised
KindsUpTo(kind) ==
    CASE kind = "Trend" -> <<"Trend">>
      [] kind = "LowerLimit" -> <<"Trend", "LowerLimit">>
      [] kind = "UpperLimit" -> AllKinds

\* C25: a failed refresh leaves the cache untouched: when an Oracle call
\* raises during update_symbol_data, the Oracle kinds after it are not
\* invoked, the function returns None to its caller (POST /addSymbol still
\* answers 200, with no data), no write is attempted and the backing
\* document is the one the request found: the previous record of the
\* symbol, if any, is still stored and no new symbol is tracked.
C25_FailedRefreshLeavesCacheUntouched ==
    \A t \in Threads :
        (job[t].kind = "http" /\ th[t].raised \in Range(AllKinds)) =>
            /\ th[t].pc = "done"
            /\ th[t].result = None
            /\ th[t].oracle = KindsUpTo(th[t].raised)
            /\ th[t].wrote = {} /\ th[t].wfail = {}
            /\ file = job[t].before
            /\ Answered(t, "addSymbol") =>
                  (job[t].status = 200 /\ job[t].data = None)

\* C25 happens: POST /addSymbol for a symbol with a stored record has been
\* answered after the second Oracle call raised; the record is still there
C25_Witness ==
    \E t \in Threads :
        /\ Answered(t, "addSymbol")
        /\ th[t].raised = "LowerLimit"
        /\ StoredRecord(file, th[t].sym) # None
        /\ StoredRecord(file, th[t].sym) = StoredRecord(job[t].before, th[t].sym)

\* symbol is left to a later cycle: the updater's cycle is over, no call is
\* running, and the document on disk still tracks symbol
Deferred(symbol) ==
    /\ CycleEnded("bg")
    /\ job["bg"].pc = "sleep"
    /\ th["api"].pc \in {"idle", "done"}
    /\ StoredRecord(file, symbol) # None

\* C26: automatic refresh: with both threads running, the Oracle answering
\* and the writes succeeding, a tracked symbol for which no request is made
\* and whose record is stale is eventually stored with a fresh record
\* written by hourly_cache_updater; granted to the statement: a cycle that
\* ends with the symbol still tracked leaves it to a later cycle.
C26_StaleIsEventuallyRefreshed ==
    \A symbol \in Symbols \ {AutoRequested} :
        StaleAt(StoredRecord(file, symbol), now)
            ~> \/ /\ FreshAt(StoredRecord(file, symbol), now)
                  /\ symbol \in Range(job["bg"].refreshed)
               \/ Deferred(symbol)

\* C27: extraction agreement: for every raw Oracle answer, the trend label
\* computed by GET /trend equals the label a refresh computes from the same
\* answer, and the limit computed by GET /lower-limit and GET /upper-limit
\* equals the limit a refresh extracts from the same answer.
C27_HandlersAgreeWithRefresh ==
    (probe # None /\ "text" \in DOMAIN probe /\ probe.called) =>
        /\ ~probe.raised
        /\ probe.field = probe.api

====
